---- MODULE Spec2Model ----
(***************************************************************************)
(* The scan-history provider (lib/scan-history.tsx) and the scanner screen *)
(* that feeds it (app/(tabs)/index.tsx), as a state machine.               *)
(*                                                                         *)
(* React keeps two views of a piece of state: the value last passed to a   *)
(* setter (here the variables history, scanned, showResult, lastScan,      *)
(* isLoading) and the value the callbacks of the last committed render     *)
(* closed over (renderedHistory, renderedScanned, renderedShowResult).     *)
(* Render copies the first into the second.  AsyncStorage is an external   *)
(* key-value store: a write stays in flight until the store settles it,    *)
(* successfully or not, and nothing in the source orders two writes.       *)
(*                                                                         *)
(* Strings are sequences of one-character strings, so that trimming and    *)
(* the regular expressions of detectScanType can be computed.              *)
(***************************************************************************)
EXTENDS Integers, Sequences, FiniteSets, TLC

\* ------------------------------------------------------------------ bounds
\* Mutation calls (addScan, removeScan, clearHistory) per session.
MaxCalls == 2
\* Records in the snapshot found in storage at session start.
MaxStored == 1

\* -------------------------------------------------------------- characters
Str_http   == <<"h", "t", "t", "p", ":", "/", "/">>
Str_https  == <<"h", "t", "t", "p", "s", ":", "/", "/">>
Str_www    == <<"w", "w", "w", ".">>
Str_mailto == <<"m", "a", "i", "l", "t", "o", ":">>
Str_tel    == <<"t", "e", "l", ":">>
Str_wifi   == <<"w", "i", "f", "i", ":">>

\* \s of the regular expressions and the characters String.trim removes.
Whitespace == {" ", "\t", "\n"}

\* \d of the regular expressions.
Digits == {"0", "1", "2", "3", "4", "5", "6", "7", "8", "9"}

\* The class [\d\s\-()] of the phone expression.
PhoneChars == Digits \cup Whitespace \cup {"-", "(", ")"}

\* Case folding of the /i flag, for the letters the patterns contain.
UpperToLower ==
  "H" :> "h" @@ "T" :> "t" @@ "P" :> "p" @@ "S" :> "s" @@ "W" :> "w" @@
  "M" :> "m" @@ "A" :> "a" @@ "I" :> "i" @@ "L" :> "l" @@ "O" :> "o" @@
  "E" :> "e" @@ "F" :> "f"

\* The patterns without the /i flag: no case folding.
toLowerCaseNone(c) == c

toLowerCase(c) == IF c \in DOMAIN UpperToLower THEN UpperToLower[c] ELSE c

\* detectScanType without the call of trim.
trimNone(s) == s

\* data.trim(): the input without its leading and trailing whitespace.
trim(s) ==
  LET keep == {i \in 1..Len(s) : s[i] \notin Whitespace}
      lo   == CHOOSE i \in keep : \A j \in keep : i <= j
      hi   == CHOOSE i \in keep : \A j \in keep : j <= i
  IN  IF keep = {} THEN <<>> ELSE SubSeq(s, lo, hi)

\* /^prefix/i.test(s), prefix given in lower case.
startsWithI(s, prefix) ==
  /\ Len(s) >= Len(prefix)
  /\ \A i \in 1..Len(prefix) : toLowerCase(s[i]) = prefix[i]

\* The e-mail expression ending in \.[^\s@]{2,}$: a top-level domain of at
\* least two characters.
matchesEmailLongTld(s) ==
  \E at \in 1..Len(s) : \E dot \in 1..Len(s) :
    /\ 1 < at
    /\ s[at] = "@"
    /\ at + 1 < dot
    /\ s[dot] = "."
    /\ dot + 1 < Len(s)
    /\ \A i \in 1..Len(s) : i # at => s[i] \notin (Whitespace \cup {"@"})

\* /^[^\s@]+@[^\s@]+\.[^\s@]+$/.test(s)
matchesEmail(s) ==
  \E at \in 1..Len(s) : \E dot \in 1..Len(s) :
    /\ 1 < at
    /\ s[at] = "@"
    /\ at + 1 < dot
    /\ s[dot] = "."
    /\ dot < Len(s)
    /\ \A i \in 1..Len(s) : i # at => s[i] \notin (Whitespace \cup {"@"})

\* The phone expression with {5,} in place of {6,}.
matchesPhoneFiveMore(s) ==
  LET first == IF Len(s) > 0 /\ s[1] = "+" THEN 2 ELSE 1
  IN  /\ Len(s) >= first
      /\ s[first] \in Digits
      /\ Len(s) - first >= 5
      /\ \A i \in (first + 1)..Len(s) : s[i] \in PhoneChars

\* /^\+?\d[\d\s\-()]{6,}$/.test(s)
matchesPhone(s) ==
  LET first == IF Len(s) > 0 /\ s[1] = "+" THEN 2 ELSE 1
  IN  /\ Len(s) >= first
      /\ s[first] \in Digits
      /\ Len(s) - first >= 6
      /\ \A i \in (first + 1)..Len(s) : s[i] \in PhoneChars

\* detectScanType with the WIFI: test moved in front of the e-mail test.
detectScanTypeWifiFirst(data) ==
  LET trimmed == trim(data)
  IN  IF startsWithI(trimmed, Str_http) \/ startsWithI(trimmed, Str_https)
         \/ startsWithI(trimmed, Str_www) THEN "url"
      ELSE IF startsWithI(trimmed, Str_wifi) THEN "wifi"
      ELSE IF startsWithI(trimmed, Str_mailto) \/ matchesEmail(trimmed) THEN "email"
      ELSE IF startsWithI(trimmed, Str_tel) \/ matchesPhone(trimmed) THEN "phone"
      ELSE IF Len(trimmed) > 0 THEN "text"
      ELSE "unknown"

\* detectScanType with the e-mail test moved in front of the url test.
detectScanTypeEmailFirst(data) ==
  LET trimmed == trim(data)
  IN  IF startsWithI(trimmed, Str_mailto) \/ matchesEmail(trimmed) THEN "email"
      ELSE IF startsWithI(trimmed, Str_http) \/ startsWithI(trimmed, Str_https)
         \/ startsWithI(trimmed, Str_www) THEN "url"
      ELSE IF startsWithI(trimmed, Str_tel) \/ matchesPhone(trimmed) THEN "phone"
      ELSE IF startsWithI(trimmed, Str_wifi) THEN "wifi"
      ELSE IF Len(trimmed) > 0 THEN "text"
      ELSE "unknown"

detectScanType(data) ==
  LET trimmed == trim(data)
  IN  IF startsWithI(trimmed, Str_http) \/ startsWithI(trimmed, Str_https)
         \/ startsWithI(trimmed, Str_www) THEN "url"
      ELSE IF startsWithI(trimmed, Str_mailto) \/ matchesEmail(trimmed) THEN "email"
      ELSE IF startsWithI(trimmed, Str_tel) \/ matchesPhone(trimmed) THEN "phone"
      ELSE IF startsWithI(trimmed, Str_wifi) THEN "wifi"
      ELSE IF Len(trimmed) > 0 THEN "text"
      ELSE "unknown"

\* --------------------------------------------------------------- JS values
\* A JavaScript value held in the history state: an array of ScanItem, or a
\* value that is no array (what JSON.parse gives for a text such as {}).
Arr(items) == [kind |-> "array", elems |-> items]

\* interface ScanItem
ScanItem(id, data, type, timestamp) ==
  [id |-> id, data |-> data, type |-> type, timestamp |-> timestamp]

\* --------------------------------------------------------------- JSON text
\* A text under the storage key: syntax tells whether JSON.parse accepts it
\* ("ok"), rejects it ("bad") or whether it is the empty string ("empty");
\* kind and elems are the document it denotes, each record written as the
\* list of its members in the order id, data, type, timestamp.
JSONText(syntax, kind, elems) == [syntax |-> syntax, kind |-> kind, elems |-> elems]

\* JSON.stringify(items), items an array of ScanItem.
JSONstringify(items) ==
  JSONText("ok", "array",
           [i \in 1..Len(items) |->
              <<items[i].id, items[i].data, items[i].type, items[i].timestamp>>])

\* JSON.parse that gives the members of the list in reverse order.
JSONparseReversed(text) ==
  [kind  |-> text.kind,
   elems |-> [i \in 1..Len(text.elems) |->
                LET e == text.elems[Len(text.elems) + 1 - i]
                IN  ScanItem(e[1], e[2], e[3], e[4])]]

\* JSON.parse(text) for a text JSON.parse accepts.
JSONparse(text) ==
  [kind  |-> text.kind,
   elems |-> [i \in 1..Len(text.elems) |->
                ScanItem(text.elems[i][1], text.elems[i][2],
                         text.elems[i][3], text.elems[i][4])]]

\* What AsyncStorage holds under STORAGE_KEY: nothing, or a text.
NoText == JSONText("empty", "array", <<>>)
Absent == [present |-> FALSE, text |-> NoText]
Stored(text) == [present |-> TRUE, text |-> text]


\* ------------------------------------------------------------------ inputs
\* Payloads the camera delivers: a text with leading and trailing
\* whitespace, and an e-mail address.
Payloads == { <<" ", "a", " ">>, <<"j", "@", "x", ".", "c">> }

\* -------------------------------------------------- inputs of detectScanType
\* Longest string of the exhaustive family ShortStrings.
MaxLen == 4

\* The letter c in upper case, for the letters the patterns contain.
toUpperCase(c) ==
  IF \E u \in DOMAIN UpperToLower : UpperToLower[u] = c
    THEN CHOOSE u \in DOMAIN UpperToLower : UpperToLower[u] = c
    ELSE c

\* The spellings of p in every mix of upper and lower case.
RECURSIVE CaseVariants(_)
CaseVariants(p) ==
  IF p = <<>> THEN {<<>>}
  ELSE {<<c>> \o rest : c \in {Head(p), toUpperCase(Head(p))},
                        rest \in CaseVariants(Tail(p))}

\* Whitespace put before and after a payload.
Pads == {<<>>, <<" ">>, <<"\t", "\n">>}

\* The scenario payloads of the specification.
Ex_url   == <<"h", "t", "t", "p", "s", ":", "/", "/", "e", "x", "a", "m", "p", "l", "e", ".", "c", "o", "m">>
Ex_wifi  == <<"W", "I", "F", "I", ":", "T", ":", "W", "P", "A", ";", "S", ":", "M", "y", "N", "e", "t", ";", "P", ":", "p", "a", "s", "s", ";", ";">>
Ex_email == <<"j", "o", "h", "n", "@", "x", ".", "c", "o">>
Ex_phone == <<"+", "1", " ", "5", "5", "5", "-", "1", "2", "3", "-", "4", "5", "6", "7">>
Ex_text  == <<"h", "e", "l", "l", "o", " ", "w", "o", "r", "l", "d">>
Ex_empty == <<>>

Examples == {Ex_url, Ex_wifi, Ex_email, Ex_phone, Ex_text, Ex_empty}

\* What follows the prefix in the payloads of the WIFI: and http families.
Tails ==
  { <<>>,
    <<"x">>,
    <<"a", "@", "b", ".", "c">>,
    <<"a", " ", "@", "b", ".", "c">>,
    <<"x", " ">> }

\* Payloads that begin with WIFI: in any letter case.
WifiInputs == {p \o t : p \in CaseVariants(Str_wifi), t \in Tails}

\* Payloads that begin with http:// or https:// in any letter case.
HttpInputs ==
  {p \o t : p \in CaseVariants(Str_http) \cup CaseVariants(Str_https), t \in Tails}

\* The parts of the payloads of the form local@domain.tld: none holds
\* whitespace or an @.
Locals ==
  { <<"a">>,
    <<"a", ".", "b">>,
    <<"w", "w", "w", ".">>,
    <<"W", "w", "W", ".", "x">>,
    <<"h", "t", "t", "p", ":", "/", "/">>,
    <<"H", "t", "t", "p", "s", ":", "/", "/", "x">>,
    <<"m", "a", "i", "l", "t", "o", ":">>,
    <<"t", "e", "l", ":">>,
    <<"W", "I", "F", "I", ":">>,
    <<"+", "1">> }
Domains ==
  { <<"b">>,
    <<"b", ".", "c">>,
    <<"-">> }
Tlds ==
  { <<"c">>,
    <<"c", "o">>,
    <<"c", ".", "d">> }

\* Payloads of the form local@domain.tld.
EmailShaped ==
  {l \o <<"@">> \o d \o <<".">> \o t : l \in Locals, d \in Domains, t \in Tlds}

\* Payloads around the phone rule.
PhoneInputs ==
  { <<"1", "2", "3", "4", "5", "6", "7">>,
    <<"1", "2", "3", "4", "5", "6">>,
    <<"+", "1", "2", "3", "4", "5", "6", "7">>,
    <<"+", "1", "2", "3", "4", "5", "6">>,
    <<"1", " ", "(", "2", "3", ")", "-", "4", "5">>,
    <<"1", "2", "3", "4", "a", "6", "7">>,
    <<"+", "1", "2", "3", "4", "5", " ">>,
    <<"t", "e", "l", ":">>,
    <<"T", "E", "L", ":", "1">>,
    <<"(", "1", "2", "3", ")", "4", "5", "6", "7">>,
    <<"1", "2", "3", "4", "5", "6", "7", "8", "@">>,
    <<"1", "\t", "2", "3", "\n", "4", "5">>,
    <<"1", "-", "-", "-", "-", "-">>,
    <<"1", "-", "-", "-", "-", "-", ")">> }

\* Every string of at most MaxLen characters over a small alphabet.
Alphabet == {" ", "a", "@", ".", "1", "+"}
ShortStrings == UNION {[1..n -> Alphabet] : n \in 0..MaxLen}

\* The payloads detectScanType is applied to.
ClassifyInputs ==
  ShortStrings
  \cup {l \o x \o r : l \in Pads, r \in Pads,
                      x \in Examples \cup EmailShaped \cup PhoneInputs}
  \cup WifiInputs \cup HttpInputs

\* The snapshot of n records written by an earlier session, newest first;
\* their ids (0, -1, ...) differ from the ids this session generates (1, 2, ...).
\* The type is the one found in the stored text, which need not be what
\* detectScanType gives for the data today.
OldItems(n) ==
  [i \in 1..n |-> ScanItem(1 - i, <<"w", "w", "w", ".">>, "text", 0)]

\* Values the storage key can hold when the session starts.
StartStorage ==
  { Absent,
    Stored(NoText),
    Stored(JSONText("bad", "array", <<>>)),
    Stored(JSONText("ok", "object", <<>>)) }
  \cup { Stored(JSONstringify(OldItems(n))) : n \in 0..MaxStored }

\* ------------------------------------------------------------------- state
VARIABLES
  storage,             \* AsyncStorage's value under STORAGE_KEY
  history,             \* useState<ScanItem[]>: the value last set
  renderedHistory,     \* history as closed over by addScan and removeScan
  isLoading,           \* useState(true) of the provider
  stored,              \* loadHistory: what `await AsyncStorage.getItem` gives
  loadResult,          \* loadHistory: "pending", then how it ended
  calls,               \* the mutation calls of the session, in invocation order
  nextId,              \* the next value of Crypto.randomUUID()
  now,                 \* Date.now(), read once by each addScan
  scanned,             \* scanner screen: useState(false), the value last set
  renderedScanned,     \* scanned as closed over by handleBarCodeScanned
  showResult,          \* scanner screen: useState(false), the value last set
  renderedShowResult,  \* showResult as the Modal of the last render shows it
  lastScan,            \* scanner screen: useState(null), the value last set
  sequential,          \* the mutations so far applied one after the other
  alert                \* history screen: the confirmation alert of handleClearAll

vars == <<storage, history, renderedHistory, isLoading, stored, loadResult, calls,
          nextId, now, scanned, renderedScanned, showResult,
          renderedShowResult, lastScan, sequential, alert>>

\* lastScan: null, or { data, type }.
NoScan == [present |-> FALSE, data |-> <<>>, type |-> "unknown"]
Scan(item) == [present |-> TRUE, data |-> item.data, type |-> item.type]

\* Placeholder for the item of a call that creates none.
NoItem == ScanItem(0, <<>>, "unknown", 0)

\* One invocation of addScan, removeScan or clearHistory:
\*   op       the operation
\*   data, id its argument (data for addScan, id for removeScan)
\*   item     the record addScan created
\*   threw    the call threw before it set any state
\*   set      the value it passed to setHistory
\*   saved    the text it passed to AsyncStorage.setItem
\*   write    that write: "none", "inflight", "ok", "failed"
\*   outcome  the call's promise: "pending", "resolved", "rejected"
Call(op, data, id, item, threw, set, saved, write, outcome) ==
  [op |-> op, data |-> data, id |-> id, item |-> item, threw |-> threw,
   set |-> set, saved |-> saved, write |-> write, outcome |-> outcome]

\* The read of loadHistory: not served yet, rejected, or served with the
\* value the storage held at that moment.
Unread == [status |-> "unread", value |-> Absent]
ReadError == [status |-> "error", value |-> Absent]
ReadValue(st) == [status |-> "value", value |-> st]

Init ==
  /\ storage \in StartStorage
  /\ history = Arr(<<>>)
  /\ renderedHistory = Arr(<<>>)
  /\ isLoading = TRUE
  /\ stored = Unread
  /\ loadResult = "pending"
  /\ calls = <<>>
  /\ nextId = 1
  /\ now = 1
  /\ scanned = FALSE
  /\ renderedScanned = FALSE
  /\ showResult = FALSE
  /\ renderedShowResult = FALSE
  /\ lastScan = NoScan
  /\ sequential = Arr(<<>>)
  /\ alert = "none"

\* ------------------------------------------------------------- loadHistory
\* `if (stored)`: getItem gave a non-empty string.
Truthy(st) == st.present /\ st.text.syntax # "empty"

\* How loadHistory ends: the read rejected, found nothing, found a text
\* JSON.parse rejects, or found a text that is parsed and set.
loadHistoryResult(rd) ==
  IF rd.status = "error" THEN "readError"
  ELSE IF ~Truthy(rd.value) THEN "absent"
  ELSE IF rd.value.text.syntax # "ok" THEN "parseError"
  ELSE "loaded"

\* history after loadHistory: setHistory(JSON.parse(stored)) runs only on
\* the "loaded" path; every other path leaves the state as it is.
loadHistoryHistory(h, rd) ==
  IF loadHistoryResult(rd) = "loaded" THEN JSONparse(rd.value.text) ELSE h

\* loadHistory with setIsLoading(false) at the end of the try block instead
\* of in a finally block: a path that throws leaves isLoading true.
loadHistoryIsLoadingNoFinally(result) == result \notin {"absent", "loaded"}

\* isLoading after loadHistory: the finally block runs on every path.
loadHistoryIsLoading(result) == FALSE

\* AsyncStorage serves the getItem of loadHistory, or rejects it.
GetItemSettle(readOk) ==
  /\ stored = Unread
  /\ stored' = IF readOk THEN ReadValue(storage) ELSE ReadError
  /\ UNCHANGED <<alert, storage, history, renderedHistory, isLoading, loadResult,
                 calls, nextId, now, scanned, renderedScanned, showResult,
                 renderedShowResult, lastScan, sequential>>

\* loadHistory runs on from its await to its end.
LoadHistoryComplete ==
  /\ stored # Unread
  /\ loadResult = "pending"
  /\ loadResult' = loadHistoryResult(stored)
  /\ history' = loadHistoryHistory(history, stored)
  /\ isLoading' = loadHistoryIsLoading(loadResult')
  /\ sequential' = history'
  /\ UNCHANGED <<alert, storage, renderedHistory, stored, calls, nextId, now, scanned,
                 renderedScanned, showResult, renderedShowResult, lastScan>>

\* ------------------------------------------------------------------ render
\* React commits a render: the callbacks and the Modal now see the state
\* last set.
Render ==
  /\ <<renderedHistory, renderedScanned, renderedShowResult>>
       # <<history, scanned, showResult>>
  /\ renderedHistory' = history
  /\ renderedScanned' = scanned
  /\ renderedShowResult' = showResult
  /\ UNCHANGED <<alert, storage, history, isLoading, stored, loadResult, calls, nextId, now,
                 scanned, showResult, lastScan, sequential>>


\* --------------------------------------------------------------- mutations
\* addScan storing the trimmed text as the record's data.
addScanItemTrimmed(id, data, timestamp) ==
  ScanItem(id, trim(data), detectScanType(data), timestamp)

\* addScan with an id derived from the content instead of a fresh UUID.
addScanItemContentId(id, data, timestamp) ==
  ScanItem(Len(data), data, detectScanType(data), timestamp)

\* addScan: the record it creates.
addScanItem(id, data, timestamp) ==
  ScanItem(id, data, detectScanType(data), timestamp)

\* addScan written as [...history, newItem]: it appends.
addScanUpdatedAppends(newItem, h) == h \o <<newItem>>

\* addScan: const updated = [newItem, ...history]
addScanUpdated(newItem, h) == <<newItem>> \o h

\* removeScan that classifies the records it keeps anew.
removeScanUpdatedReclassifies(h, id) ==
  LET kept == SelectSeq(h, LAMBDA item : item.id # id)
  IN  [i \in 1..Len(kept) |->
         [kept[i] EXCEPT !.type = detectScanType(kept[i].data)]]

\* removeScan: const updated = history.filter(item => item.id !== id)
removeScanUpdated(h, id) == SelectSeq(h, LAMBDA item : item.id # id)

\* clearHistory written as history.slice(1): it drops the newest record only.
clearHistoryDropsNewest(h) == IF h = <<>> THEN <<>> ELSE Tail(h)

\* clearHistory written as history.slice(0, 1): it keeps the newest record.
clearHistoryKeepsNewest(h) == IF h = <<>> THEN <<>> ELSE <<Head(h)>>

\* clearHistory: the [] it sets and saves, whatever the history h was.
clearHistoryUpdated(h) == <<>>

\* saveHistory on a store that keeps a truncated text when a write fails.
saveHistoryStorageTorn(st, text, ok) ==
  IF ok THEN Stored(text) ELSE Stored(JSONText("bad", "array", <<>>))

\* saveHistory: the storage after AsyncStorage.setItem settled.
saveHistoryStorage(st, text, ok) == IF ok THEN Stored(text) ELSE st

\* A mutation call that does not await saveHistory: it resolves at once.
CallOutcomeNoAwait(write) == "resolved"

\* saveHistory without its try/catch: a rejected write rejects the call.
CallOutcomeNoCatch(write) ==
  IF write = "inflight" THEN "pending"
  ELSE IF write = "failed" THEN "rejected"
  ELSE "resolved"

\* The promise of a mutation call, given the state of its write: the call
\* awaits saveHistory, and saveHistory catches a rejected write.
CallOutcome(write) == IF write = "inflight" THEN "pending" ELSE "resolved"

\* `[newItem, ...history]` and `history.filter` throw a TypeError when the
\* history the callback closed over is no array.
Throws(h) == h.kind # "array"

\* handleBarCodeScanned resumes after `await addScan(...)`.
Delivered(op, before, after) ==
  op = "addScan" /\ before # "resolved" /\ after = "resolved"

\* handleBarCodeScanned(result) up to its await, with the addScan call it
\* makes: the camera delivers a barcode while the last render left the
\* gate open.
HandleBarCodeScanned(data) ==
  /\ ~renderedScanned
  /\ Len(calls) < MaxCalls
  /\ scanned' = TRUE
  /\ nextId' = nextId + 1
  /\ now' = now + 1
  /\ LET newItem == addScanItem(nextId, data, now)
         updated == addScanUpdated(newItem, renderedHistory.elems)
         outcome == CallOutcome("inflight")
     IN  IF Throws(renderedHistory)
           THEN /\ calls' = Append(calls,
                      Call("addScan", data, 0, newItem, TRUE, Arr(<<>>),
                           NoText, "none", "rejected"))
                /\ UNCHANGED <<history, sequential, lastScan, showResult>>
           ELSE /\ history' = Arr(updated)
                /\ calls' = Append(calls,
                      Call("addScan", data, 0, newItem, FALSE, Arr(updated),
                           JSONstringify(updated), "inflight", outcome))
                /\ sequential' = IF Throws(sequential) THEN sequential
                                 ELSE Arr(addScanUpdated(newItem, sequential.elems))
                /\ IF Delivered("addScan", "pending", outcome)
                     THEN lastScan' = Scan(newItem) /\ showResult' = TRUE
                     ELSE UNCHANGED <<lastScan, showResult>>
  /\ UNCHANGED <<alert, storage, renderedHistory, isLoading, stored, loadResult,
                 renderedScanned, renderedShowResult>>

\* removeScan(id) up to its await.
RemoveScan(id) ==
  /\ Len(calls) < MaxCalls
  /\ LET updated == removeScanUpdated(renderedHistory.elems, id)
     IN  IF Throws(renderedHistory)
           THEN /\ calls' = Append(calls,
                      Call("removeScan", <<>>, id, NoItem, TRUE, Arr(<<>>),
                           NoText, "none", "rejected"))
                /\ UNCHANGED <<history, sequential>>
           ELSE /\ history' = Arr(updated)
                /\ calls' = Append(calls,
                      Call("removeScan", <<>>, id, NoItem, FALSE, Arr(updated),
                           JSONstringify(updated), "inflight",
                           CallOutcome("inflight")))
                /\ sequential' = IF Throws(sequential) THEN sequential
                                 ELSE Arr(removeScanUpdated(sequential.elems, id))
  /\ UNCHANGED <<alert, storage, renderedHistory, isLoading, stored, loadResult, nextId, now,
                 scanned, renderedScanned, showResult, renderedShowResult,
                 lastScan>>

\* clearHistory() up to its await: what the call does to the provider.
clearHistory ==
  /\ Len(calls) < MaxCalls
  /\ LET updated == clearHistoryUpdated(renderedHistory.elems)
     IN  /\ history' = Arr(updated)
         /\ calls' = Append(calls,
               Call("clearHistory", <<>>, 0, NoItem, FALSE, Arr(updated),
                    JSONstringify(updated), "inflight",
                    CallOutcome("inflight")))
  /\ sequential' = Arr(<<>>)
  /\ UNCHANGED <<storage, renderedHistory, isLoading, stored, loadResult, nextId, now,
                 scanned, renderedScanned, showResult, renderedShowResult,
                 lastScan>>

\* A consumer of the context calls clearHistory().
ClearHistory == clearHistory /\ UNCHANGED alert

\* AsyncStorage.setItem of call c settles; saveHistory, the call and, for
\* addScan, handleBarCodeScanned run on from their awaits.
WriteSettle(c, ok) ==
  /\ c \in 1..Len(calls)
  /\ calls[c].write = "inflight"
  /\ LET write   == IF ok THEN "ok" ELSE "failed"
         outcome == CallOutcome(write)
     IN  /\ calls' = [calls EXCEPT ![c].write = write, ![c].outcome = outcome]
         /\ storage' = saveHistoryStorage(storage, calls[c].saved, ok)
         /\ IF Delivered(calls[c].op, calls[c].outcome, outcome)
              THEN lastScan' = Scan(calls[c].item) /\ showResult' = TRUE
              ELSE UNCHANGED <<lastScan, showResult>>
  /\ UNCHANGED <<alert, history, renderedHistory, isLoading, stored, loadResult, nextId, now,
                 scanned, renderedScanned, renderedShowResult, sequential>>

\* handleDismiss: the user closes the result sheet the last render shows.
HandleDismiss ==
  /\ renderedShowResult
  /\ showResult' = FALSE
  /\ scanned' = FALSE
  /\ lastScan' = NoScan
  /\ UNCHANGED <<alert, storage, history, renderedHistory, isLoading, stored,
                 loadResult, calls, nextId, now, renderedScanned, renderedShowResult,
                 sequential>>

\* ---------------------------------------------------------- history screen
\* The buttons of the alert handleClearAll opens.
AlertButtons == {"Cancel", "Clear All"}

\* An alert whose two buttons both carry the onPress that clears.
alertOnPressBoth(button) == TRUE

\* The button carries the onPress that calls clearHistory: the destructive
\* 'Clear All' does, 'Cancel' has no onPress.
alertOnPress(button) == button = "Clear All"

\* handleClearAll: the user presses the 'Clear All' button of the header
\* bar, which is rendered once loading is over and while the list is not
\* empty; Alert.alert opens the confirmation alert and nothing else happens.
HandleClearAll ==
  /\ ~isLoading
  /\ Len(renderedHistory.elems) > 0
  /\ alert # "open"
  /\ alert' = "open"
  /\ UNCHANGED <<storage, history, renderedHistory, isLoading, stored, loadResult,
                 calls, nextId, now, scanned, renderedScanned, showResult,
                 renderedShowResult, lastScan, sequential>>

\* The user presses a button of the open alert; alert keeps the button.
AlertPress(button) ==
  /\ alert = "open"
  /\ alert' = button
  /\ IF alertOnPress(button)
       THEN clearHistory
       ELSE UNCHANGED <<storage, history, renderedHistory, isLoading, stored,
                        loadResult, calls, nextId, now, scanned, renderedScanned,
                        showResult, renderedShowResult, lastScan, sequential>>

\* handleDelete(id): the user deletes a row of the list, which is rendered
\* once loading is over and is out of reach while the alert is open.
HandleDelete(id) ==
  /\ ~isLoading
  /\ alert # "open"
  /\ RemoveScan(id)

\* Ids a caller may pass to removeScan: those of the records in the history
\* (as last set, or as last rendered), and one no record has.
RemoveIds ==
  {history.elems[i].id : i \in 1..Len(history.elems)}
  \cup {renderedHistory.elems[i].id : i \in 1..Len(renderedHistory.elems)}
  \cup {nextId}

Next ==
  \/ \E readOk \in BOOLEAN : GetItemSettle(readOk)
  \/ LoadHistoryComplete
  \/ Render
  \/ \E data \in Payloads : HandleBarCodeScanned(data)
  \/ \E id \in RemoveIds : RemoveScan(id)
  \/ ClearHistory
  \/ \E c \in 1..MaxCalls : \E ok \in BOOLEAN : WriteSettle(c, ok)
  \/ HandleDismiss

Spec == Init /\ [][Next]_vars

\* The app as the user drives it: the scanner screen and the history
\* screen, where clearHistory is reached through the alert only.
HistoryScreenNext ==
  \/ \E readOk \in BOOLEAN : GetItemSettle(readOk)
  \/ LoadHistoryComplete
  \/ Render
  \/ \E data \in Payloads : HandleBarCodeScanned(data)
  \/ \E id \in RemoveIds : HandleDelete(id)
  \/ HandleClearAll
  \/ \E button \in AlertButtons : AlertPress(button)
  \/ \E c \in 1..MaxCalls : \E ok \in BOOLEAN : WriteSettle(c, ok)
  \/ HandleDismiss

HistoryScreenSpec == Init /\ [][HistoryScreenNext]_vars

\* detectScanType on its own: a session with nothing stored in which the
\* camera delivers one payload out of ClassifyInputs, and the steps that
\* follow that scan.
ClassifyInit == Init /\ storage = Absent

ClassifyNext ==
  \/ calls = <<>> /\ \E data \in ClassifyInputs : HandleBarCodeScanned(data)
  \/ \E c \in 1..MaxCalls : \E ok \in BOOLEAN : WriteSettle(c, ok)
  \/ Render
  \/ HandleDismiss

ClassifySpec == ClassifyInit /\ [][ClassifyNext]_vars

\* The storage read settles and loadHistory then runs on: it has no other
\* way to stay pending.
FairSpec ==
  /\ Spec
  /\ WF_vars(\E readOk \in BOOLEAN : GetItemSettle(readOk))
  /\ WF_vars(LoadHistoryComplete)

\* The scanner screen with its environment making progress: the storage
\* settles every read and every write, and React commits every pending
\* render.
ScanFairSpec ==
  /\ FairSpec
  /\ \A c \in 1..MaxCalls : WF_vars(\E ok \in BOOLEAN : WriteSettle(c, ok))
  /\ WF_vars(Render)

\* ================================================================== claims
\* The step appends a call of the operation op.
IsNewCall(op) == Len(calls') = Len(calls) + 1 /\ calls'[Len(calls')].op = op

\* The call the step appended.
NewCall == calls'[Len(calls')]

\* The ids of the records of a list.
IdsOf(items) == {items[i].id : i \in 1..Len(items)}

\* C1: after addScan(x) the created record carries x unchanged as its data
\* and is at index 0 of history, with the records history held before the
\* call following it.
C1_AddPrepends ==
  [][(IsNewCall("addScan") /\ ~NewCall.threw) =>
       /\ NewCall.item.data = NewCall.data
       /\ history' = Arr(<<NewCall.item>> \o history.elems)]_vars

\* C2: history is at all times the result of applying the mutations invoked
\* so far one after the other, each on the result of the one before.
C2_SequentialApplication == history = sequential

\* C3: once loadHistory has ended and every write issued by a mutation has
\* completed successfully, the stored snapshot is the in-memory history.
C3_StoredEqualsHistory ==
  (/\ loadResult # "pending"
   /\ calls # <<>>
   /\ \A c \in 1..Len(calls) : calls[c].write = "ok")
  => storage = Stored(JSONstringify(history.elems))

C5_WriteFailureContained ==
  [][\A c \in 1..Len(calls) :
       (calls[c].write = "inflight" /\ calls'[c].write = "failed") =>
         /\ calls'[c].outcome = "resolved"
         /\ history' = history
         /\ calls[c].op = "addScan" =>
              (lastScan' = Scan(calls[c].item) /\ showResult')]_vars

\* The write of an addScan failed: the record is in history and with the
\* scanner screen, and the storage does not have it.
C5_Witness ==
  \E c \in 1..Len(calls) :
    /\ calls[c].op = "addScan"
    /\ calls[c].write = "failed"
    /\ calls[c].outcome = "resolved"
    /\ history = calls[c].set
    /\ lastScan = Scan(calls[c].item)
    /\ storage # Stored(calls[c].saved)

\* The stored value is a snapshot: a text JSON.parse accepts that denotes a
\* list of records.
WellFormed(st) == Truthy(st) /\ st.text.syntax = "ok" /\ st.text.kind = "array"

\* C6: after initialization, history is the stored snapshot if the stored
\* value could be read and is well-formed, and the empty list otherwise.
C6_LoadFailOpen ==
  (loadResult # "pending" /\ calls = <<>>) =>
    history = IF stored.status = "value" /\ WellFormed(stored.value)
                THEN JSONparse(stored.value.text)
                ELSE Arr(<<>>)

\* C7: isLoading is true until loadHistory has ended, false from then on
\* whatever the read gave, never true again, and loadHistory does end.
C7_IsLoading ==
  /\ [](loadResult = "pending" <=> isLoading)
  /\ [][~isLoading => ~isLoading']_vars
  /\ <>(~isLoading)

\* loadHistory has ended on a path that threw, and isLoading is false.
C7_Witness ==
  loadResult \in {"readError", "parseError"} /\ ~isLoading

\* C8: removeScan(id) with an id in history shortens history by one and
\* leaves no record with that id; with an id not in history it leaves
\* history unchanged; in neither case does it throw.
C8_RemoveExactlyOne ==
  [][IsNewCall("removeScan") =>
       /\ ~NewCall.threw
       /\ IF NewCall.id \in IdsOf(history.elems)
            THEN /\ Len(history'.elems) = Len(history.elems) - 1
                 /\ NewCall.id \notin IdsOf(history'.elems)
            ELSE history' = history]_vars

\* C9: clearHistory sets history to the empty list and issues the write of
\* the empty snapshot; when that write succeeds the storage holds it.
C9_ClearEmpties ==
  [][/\ IsNewCall("clearHistory") =>
          /\ history' = Arr(<<>>)
          /\ NewCall.saved = JSONstringify(<<>>)
          /\ NewCall.write = "inflight"
     /\ \A c \in 1..Len(calls) :
          (/\ calls[c].op = "clearHistory"
           /\ calls[c].write = "inflight"
           /\ calls'[c].write = "ok")
          => storage' = Stored(JSONstringify(<<>>))]_vars

\* A non-empty history was cleared and the empty snapshot is stored.
C9_Witness ==
  \E c \in 2..Len(calls) :
    /\ calls[c].op = "clearHistory"
    /\ calls[c].write = "ok"
    /\ calls[c - 1].op = "addScan"
    /\ calls[c - 1].set.elems # <<>>
    /\ history = Arr(<<>>)
    /\ storage = Stored(JSONstringify(<<>>))

\* C10: a clearHistory that follows a clearHistory sets the history the
\* first one set and saves the snapshot the first one saved.
C10_ClearIdempotent ==
  [][(/\ IsNewCall("clearHistory")
      /\ calls # <<>>
      /\ calls[Len(calls)].op = "clearHistory")
     => /\ history' = calls[Len(calls)].set
        /\ NewCall.set = calls[Len(calls)].set
        /\ NewCall.saved = calls[Len(calls)].saved]_vars

\* Two clearHistory calls in a row on a history that was not empty, both
\* writes done.
C10_Witness ==
  /\ Len(calls) = 2
  /\ calls[1].op = "clearHistory" /\ calls[2].op = "clearHistory"
  /\ calls[1].write = "ok" /\ calls[2].write = "ok"
  /\ loadResult = "loaded"
  /\ stored.value.text.elems # <<>>
  /\ history = Arr(<<>>)
  /\ storage = Stored(JSONstringify(<<>>))


\* The collections the program has written or may find written: those the
\* mutation calls saved, and the snapshots of an earlier session.
WrittenCollections ==
  {calls[c].set.elems : c \in {d \in 1..Len(calls) : ~calls[d].threw}}
  \cup {OldItems(n) : n \in 0..MaxStored}

\* C11: when loadHistory decodes a text that saveHistory wrote for a
\* collection, history becomes that collection: same records (id, data,
\* type, timestamp) in the same order.
C11_RoundTrip ==
  [][(loadResult = "pending" /\ loadResult' = "loaded") =>
       \A items \in WrittenCollections :
         stored.value.text = JSONstringify(items) => history' = Arr(items)]_vars

\* loadHistory has read back a snapshot of two records that two addScan
\* calls wrote, and history is that snapshot.
C11_Witness ==
  /\ loadResult = "loaded"
  /\ Len(calls) = 2
  /\ calls[2].op = "addScan"
  /\ Len(calls[2].set.elems) >= 2
  /\ stored.value.text = calls[2].saved
  /\ history = calls[2].set

\* C12: no two records of history have the same id.
C12_UniqueIds ==
  \A i, j \in 1..Len(history.elems) :
    history.elems[i].id = history.elems[j].id => i = j

\* history holds two records of this session.
C12_Witness ==
  /\ Len(history.elems) >= 2
  /\ history.elems[1].id > 0
  /\ history.elems[2].id > 0

\* C13: history is newest first: ids are generated in increasing order and
\* the stored records have the ids below 1, so a record created later, and
\* any record of this session compared with a loaded one, has the greater
\* id and must be at the smaller index.
C13_NewestFirst ==
  \A i, j \in 1..Len(history.elems) :
    i < j => history.elems[i].id > history.elems[j].id

\* history holds a record of this session in front of a loaded one.
C13_Witness ==
  /\ Len(history.elems) >= 2
  /\ history.elems[1].id > 0
  /\ history.elems[Len(history.elems)].id <= 0

\* C14: handleBarCodeScanned calls addScan only while the scan gate is
\* open: from the event it accepts until handleDismiss, no second addScan.
C14_OneScanPerGate ==
  [][IsNewCall("addScan") => ~scanned]_vars


\* ------------------------------------------------ claims on detectScanType
\* The addScan calls made so far.
AddCalls == {c \in 1..Len(calls) : calls[c].op = "addScan"}

\* s begins with one of the strings of the set prefixes.
HasPrefixIn(s, prefixes) ==
  \E p \in prefixes : Len(s) >= Len(p) /\ SubSeq(s, 1, Len(p)) = p

\* http://, https:// and www. in every letter case.
UrlPrefixes ==
  CaseVariants(Str_http) \cup CaseVariants(Str_https) \cup CaseVariants(Str_www)

\* C15, as claimed: a payload that begins with WIFI: in any letter case is
\* classified wifi.
C15_WifiPrefix ==
  \A c \in AddCalls : calls[c].data \in WifiInputs => calls[c].item.type = "wifi"

\* C15, amended: a payload that begins with WIFI: in any letter case is
\* classified wifi, unless its trimmed text has the e-mail shape, which the
\* earlier e-mail rule classifies email.
C15_WifiUnlessEmail ==
  \A c \in AddCalls :
    calls[c].data \in WifiInputs =>
      calls[c].item.type =
        IF matchesEmail(trim(calls[c].data)) THEN "email" ELSE "wifi"

\* A payload that begins with WIFI: in upper case was classified wifi.
C15_Witness ==
  \E c \in AddCalls :
    /\ calls[c].data \in WifiInputs
    /\ calls[c].data[1] = "W" /\ calls[c].data[4] = "I"
    /\ calls[c].item.type = "wifi"

\* C16: a payload of the form local@domain.tld is classified email, or url
\* when it begins with http://, https:// or www. in any letter case.
C16_EmailShape ==
  \A c \in AddCalls :
    calls[c].data \in EmailShaped =>
      calls[c].item.type =
        IF HasPrefixIn(calls[c].data, UrlPrefixes) THEN "url" ELSE "email"

\* A payload local@domain.tld with a one-letter tld and a local part that
\* begins like another rule's prefix was classified email.
C16_Witness ==
  \E c \in AddCalls :
    /\ calls[c].data \in EmailShaped
    /\ HasPrefixIn(calls[c].data, CaseVariants(Str_tel))
    /\ calls[c].data[Len(calls[c].data) - 1] = "."
    /\ calls[c].item.type = "email"

\* The tags, in the order of the rules.
RuleOrder == <<"url", "email", "phone", "wifi", "text", "unknown">>

\* The pattern of the rule of a tag matches the trimmed text t.
RuleMatches(tag, t) ==
  CASE tag = "url" ->
         \/ startsWithI(t, Str_http) \/ startsWithI(t, Str_https)
         \/ startsWithI(t, Str_www)
    [] tag = "email" -> startsWithI(t, Str_mailto) \/ matchesEmail(t)
    [] tag = "phone" -> startsWithI(t, Str_tel) \/ matchesPhone(t)
    [] tag = "wifi" -> startsWithI(t, Str_wifi)
    [] tag = "text" -> Len(t) > 0
    [] tag = "unknown" -> TRUE

\* The tag of the earliest rule whose pattern matches t.
FirstMatch(t) ==
  LET matching == {i \in 1..Len(RuleOrder) : RuleMatches(RuleOrder[i], t)}
  IN  RuleOrder[CHOOSE i \in matching : \A j \in matching : i <= j]

\* C17: every payload gets one of the six tags, the tag of the earliest
\* rule whose pattern its trimmed text matches.
C17_FirstMatchWins ==
  \A c \in AddCalls :
    /\ calls[c].item.type \in {RuleOrder[i] : i \in 1..Len(RuleOrder)}
    /\ calls[c].item.type = FirstMatch(trim(calls[c].data))

\* A payload that matches the url, the e-mail and the text pattern was
\* classified url.
C17_Witness ==
  \E c \in AddCalls :
    /\ RuleMatches("url", trim(calls[c].data))
    /\ RuleMatches("email", trim(calls[c].data))
    /\ calls[c].item.type = "url"

\* C18: a payload that begins with http:// or https:// in any letter case
\* is classified url.
C18_HttpPrefix ==
  \A c \in AddCalls : calls[c].data \in HttpInputs => calls[c].item.type = "url"

\* A payload HTTPS://... in upper case with an e-mail-shaped rest was
\* classified url.
C18_Witness ==
  \E c \in AddCalls :
    /\ calls[c].data \in HttpInputs
    /\ calls[c].data[1] = "H" /\ calls[c].data[5] = "S"
    /\ matchesEmail(calls[c].data)
    /\ calls[c].item.type = "url"

\* The string holds nothing but whitespace.
OnlyWhitespace(s) == \A i \in 1..Len(s) : s[i] \in Whitespace

\* C19: the tag is unknown exactly for the payloads that are empty or hold
\* only whitespace; any other payload that matches none of the url, e-mail,
\* phone and wifi patterns is classified text.
C19_UnknownAndText ==
  \A c \in AddCalls :
    /\ calls[c].item.type = "unknown" <=> OnlyWhitespace(calls[c].data)
    /\ (/\ ~OnlyWhitespace(calls[c].data)
        /\ \A tag \in {"url", "email", "phone", "wifi"} :
             ~RuleMatches(tag, trim(calls[c].data)))
       => calls[c].item.type = "text"

\* A payload of whitespace only, not empty, was classified unknown.
C19_Witness ==
  \E c \in AddCalls :
    /\ calls[c].data # <<>>
    /\ OnlyWhitespace(calls[c].data)
    /\ calls[c].item.type = "unknown"

\* The category the specification gives for its scenario payloads.
ScenarioType(x) ==
  CASE x = Ex_url -> "url"
    [] x = Ex_wifi -> "wifi"
    [] x = Ex_email -> "email"
    [] x = Ex_phone -> "phone"
    [] x = Ex_text -> "text"
    [] x = Ex_empty -> "unknown"

\* C20: the record addScan creates has the raw text as its data and the
\* classification of the trimmed text as its type; the scenario payloads,
\* also with whitespace around them, get the categories listed.
C20_TypeOfTrimmedDataUntrimmed ==
  \A c \in AddCalls :
    /\ calls[c].item.data = calls[c].data
    /\ calls[c].item.type = detectScanType(trim(calls[c].data))
    /\ \A x \in Examples : \A l, r \in Pads :
         calls[c].data = l \o x \o r => calls[c].item.type = ScenarioType(x)

\* The phone scenario with whitespace around it: data untrimmed, type phone.
C20_Witness ==
  \E c \in AddCalls :
    /\ calls[c].data = <<" ">> \o Ex_phone \o <<" ">>
    /\ calls[c].item.data = calls[c].data
    /\ calls[c].item.type = "phone"


\* ------------------------------------------------- claims C21 to C28
\* C21: after a write has failed, when the write of a later mutation
\* succeeds with no other write in flight, the stored snapshot is the
\* in-memory history.
C21_NextWriteRepairs ==
  [][\A c \in 1..Len(calls) :
       (/\ calls[c].write = "inflight"
        /\ calls'[c].write = "ok"
        /\ \E d \in 1..(c - 1) : calls[d].write = "failed"
        /\ \A e \in 1..Len(calls) : e # c => calls[e].write # "inflight")
       => storage' = Stored(JSONstringify(history'.elems))]_vars

\* The records of a history value.
Records(h) == {h.elems[i] : i \in 1..Len(h.elems)}

\* C22: records are immutable.  A record a call created is never changed;
\* after addScan or removeScan every record of history other than the new
\* one is a record the callback found, every record that was in history
\* and still is has the same id, data, type and timestamp, and such records
\* are in the same relative order; loadHistory takes each record's type
\* from the stored text and does not compute it.
C22_RecordsImmutable ==
  [][/\ \A c \in 1..Len(calls) : calls'[c].item = calls[c].item
     /\ ((IsNewCall("addScan") \/ IsNewCall("removeScan")) /\ ~NewCall.threw) =>
          /\ Records(history') \subseteq
                Records(renderedHistory) \cup
                  (IF NewCall.op = "addScan" THEN {NewCall.item} ELSE {})
          /\ \A r \in Records(history') : \A q \in Records(history) :
                r.id = q.id => r = q
          /\ \A i, j \in 1..Len(history'.elems) : \A k, l \in 1..Len(history.elems) :
                (/\ i < j
                 /\ history'.elems[i].id = history.elems[k].id
                 /\ history'.elems[j].id = history.elems[l].id) => k < l
     /\ (loadResult = "pending" /\ loadResult' = "loaded") =>
          /\ Len(history'.elems) = Len(stored.value.text.elems)
          /\ \A i \in 1..Len(history'.elems) :
                /\ history'.elems[i].id = stored.value.text.elems[i][1]
                /\ history'.elems[i].data = stored.value.text.elems[i][2]
                /\ history'.elems[i].type = stored.value.text.elems[i][3]
                /\ history'.elems[i].timestamp = stored.value.text.elems[i][4]]_vars

\* A record was added and removed again; the loaded record that is left
\* still has the type it was stored with, which is not the one
\* detectScanType gives for its data.
C22_Witness ==
  /\ Len(calls) = 2
  /\ calls[1].op = "addScan" /\ ~calls[1].threw
  /\ calls[2].op = "removeScan" /\ calls[2].id = calls[1].item.id
  /\ Len(calls[1].set.elems) = 2
  /\ history = calls[2].set
  /\ Len(history.elems) = 1
  /\ history.elems[1].id <= 0
  /\ history.elems[1].type # detectScanType(history.elems[1].data)

\* The characters that may follow the first digit of a phone number:
\* digits, white space, hyphen, parentheses.
AfterDigit == Digits \cup Whitespace \cup {"-", "(", ")"}

\* t is an optional +, one digit and at least 6 further characters out of
\* AfterDigit.
PhoneShape(t) ==
  \E plus \in {0, 1} :
    /\ Len(t) >= plus + 7
    /\ plus = 1 => t[1] = "+"
    /\ t[plus + 1] \in Digits
    /\ \A i \in (plus + 2)..Len(t) : t[i] \in AfterDigit

\* t is one digit followed by fewer than 6 characters out of AfterDigit.
ShortNumber(t) ==
  /\ Len(t) \in 1..6
  /\ t[1] \in Digits
  /\ \A i \in 2..Len(t) : t[i] \in AfterDigit

\* C23: a payload whose trimmed text matches neither the url nor the e-mail
\* rule is classified phone exactly when the trimmed text begins with tel:
\* in any letter case or has the phone shape; one digit followed by fewer
\* than 6 further characters is not classified phone.
C23_PhoneRule ==
  \A c \in AddCalls :
    LET t == trim(calls[c].data)
    IN  (~RuleMatches("url", t) /\ ~RuleMatches("email", t)) =>
          /\ calls[c].item.type = "phone" <=>
                (HasPrefixIn(t, CaseVariants(Str_tel)) \/ PhoneShape(t))
          /\ ShortNumber(t) => calls[c].item.type # "phone"

\* A payload of exactly one digit and 6 further characters, with white
\* space around it, was classified phone.
C23_Witness ==
  \E c \in AddCalls :
    /\ Len(calls[c].data) > 7
    /\ Len(trim(calls[c].data)) = 7
    /\ trim(calls[c].data)[1] \in Digits
    /\ calls[c].item.type = "phone"

\* C24: when loadHistory completes, every record that addScan put into
\* history while the read was in flight is still in history.
C24_LoadKeepsAdded ==
  [][(loadResult = "pending" /\ loadResult' # "pending") =>
       \A c \in AddCalls :
         calls[c].item \in Records(history) => calls[c].item \in Records(history')]_vars

\* C25: the value under the storage key changes only when the write of a
\* mutation call succeeds, and then to the serialization of the collection
\* that call set as history when it ran; each call saves exactly the
\* collection it sets; loadHistory never changes the stored value.
C25_StoredIsSomeCallsSnapshot ==
  [][/\ storage' # storage =>
          \E c \in 1..Len(calls) :
            /\ calls[c].write = "inflight"
            /\ calls'[c].write = "ok"
            /\ ~calls[c].threw
            /\ storage' = Stored(JSONstringify(calls[c].set.elems))
     /\ (Len(calls') = Len(calls) + 1 /\ ~NewCall.threw) =>
          /\ history' = NewCall.set
          /\ NewCall.saved = JSONstringify(NewCall.set.elems)
     /\ (stored' # stored \/ loadResult' # loadResult) => storage' = storage]_vars

\* A write failed and left the storage as it was; the other call's write
\* succeeded and the storage holds that call's collection, which is not the
\* value loadHistory read at the start.
C25_Witness ==
  \E c, d \in 1..Len(calls) :
    /\ calls[c].write = "ok"
    /\ calls[d].write = "failed"
    /\ calls[c].set.elems # <<>>
    /\ storage = Stored(JSONstringify(calls[c].set.elems))
    /\ stored.status = "value"
    /\ storage # stored.value
    /\ loadResult # "pending"

\* C26: whenever the result sheet is set visible the scan gate is closed
\* and lastScan holds the data and type of a record addScan created, the
\* newest one; handleDismiss resets showResult, scanned and lastScan
\* together.
C26_SheetImpliesGateClosed ==
  /\ showResult =>
       /\ scanned
       /\ \E c \in AddCalls : ~calls[c].threw /\ lastScan = Scan(calls[c].item)
  /\ ~showResult => ~lastScan.present

\* C27: every barcode event the scanner screen accepted, from the moment
\* it called addScan, leads to the result sheet set visible with the record
\* of that scan, however its write ends; handleDismiss opens the gate, and
\* an open gate reaches the camera callback, so that a new event is
\* accepted.
C27_ScanLeadsToSheet ==
  /\ \A c \in 1..MaxCalls :
       (Len(calls) >= c /\ calls[c].op = "addScan" /\ calls[c].outcome # "resolved")
         ~> (Len(calls) >= c /\ showResult /\ lastScan = Scan(calls[c].item))
  /\ [][(renderedShowResult /\ showResult /\ ~showResult') => ~scanned']_vars
  /\ ~scanned ~> ~renderedScanned

\* C28: on the history screen clearHistory is called exactly in the step in
\* which the user presses 'Clear All' in the open alert; opening the alert
\* and pressing 'Cancel' leave history, the stored snapshot and the calls
\* as they are.
C28_ClearOnlyAfterConfirm ==
  [][/\ IsNewCall("clearHistory") <=> (alert = "open" /\ alert' = "Clear All")
     /\ (alert' # alert /\ alert' \in {"open", "Cancel"}) =>
          /\ history' = history
          /\ storage' = storage
          /\ calls' = calls]_vars

\* The user opened the alert on a list of two records and pressed 'Cancel':
\* the records are still there and clearHistory has not been called.
C28_Witness ==
  /\ alert = "Cancel"
  /\ Len(history.elems) >= 2
  /\ \A c \in 1..Len(calls) : calls[c].op # "clearHistory"

====
